---- MODULE Spec2Model ----
(***************************************************************************)
(* Model of resnap/core/train_potential.py: the PotentialTrainer object,   *)
(* its cross_validation sweep and its make_potential fit-and-save.         *)
(*                                                                         *)
(* Numbers the solver would produce are kept symbolic: a cell of X or y is *)
(* a record naming its row and column, a fitted coefficient is a record    *)
(* naming its column and alpha, and the absolute residual of a row under a *)
(* fitted model is a fixed function of the model and the row.  Averages    *)
(* are exact rationals.  Array positions are Python's (0-based) wherever   *)
(* they are values; TLA+ sequences holding them are 1-based.               *)
(***************************************************************************)
EXTENDS Integers, Sequences, FiniteSets

\* ------------------------------------------------------------- bounds
MaxN == 6
MaxD == 2
MaxAlphas == 2

\* range(5): the number of folds, and the stride of the validation slice
Folds == 5

Alphas == {0, 1}
Seeds == {2020, 7}
PlotImages == {"None", "atom", "sample"}
ModelKinds == {"LASSO", "RIDGE", "None"}
NormKinds == {"None", "l2"}

\* ------------------------------------------------------------- rationals
RECURSIVE Gcd(_, _)
Gcd(a, b) == IF b = 0 THEN a ELSE Gcd(b, a % b)

Abs(n) == IF n < 0 THEN -n ELSE n

Reduce(n, d, g) == [num |-> n \div g, den |-> d \div g]

\* the rational n / d in lowest terms, d > 0
Rat(n, d) == Reduce(n, d, Gcd(Abs(n), d))

RatAdd(a, b) == Rat(a.num * b.den + b.num * a.den, a.den * b.den)
RatSub(a, b) == Rat(a.num * b.den - b.num * a.den, a.den * b.den)
RatLess(a, b) == a.num * b.den < b.num * a.den

\* the sum of a sequence of rationals is NumSum over DenProd, the product of
\* the denominators
RECURSIVE DenProd(_)
DenProd(s) == IF s = <<>> THEN 1 ELSE Head(s).den * DenProd(Tail(s))

RECURSIVE NumSum(_)
NumSum(s) ==
    IF s = <<>> THEN 0
    ELSE Head(s).num * DenProd(Tail(s)) + Head(s).den * NumSum(Tail(s))


\* np.mean / np.average of a non-empty sequence
Mean(s) == Rat(NumSum(s), DenProd(s) * Len(s))

\* builtin max() / min() over a non-empty array
RECURSIVE Max(_)
Max(s) ==
    IF Len(s) = 1 THEN s[1]
    ELSE LET m == Max(Tail(s)) IN IF RatLess(s[1], m) THEN m ELSE s[1]

RECURSIVE Min(_)
Min(s) ==
    IF Len(s) = 1 THEN s[1]
    ELSE LET m == Min(Tail(s)) IN IF RatLess(m, s[1]) THEN m ELSE s[1]

\* ------------------------------------------------------------- arrays
\* a[:, from:] on a 2-D array (from is the 0-based first column kept)
Cols(a, from) == [r \in 1..Len(a) |-> SubSeq(a[r], from + 1, Len(a[r]))]

\* a[:, c] on a 2-D array (c 0-based)
Col(a, c) == [r \in 1..Len(a) |-> a[r][c + 1]]

\* a[ids]: fancy indexing by a list of 0-based positions
Take(a, ids) == [p \in 1..Len(ids) |-> a[ids[p] + 1]]

\* np.concatenate((y, x), axis=1)
Concatenate(y, x) == [r \in 1..Len(y) |-> y[r] \o x[r]]

InSeq(e, s) == \E p \in 1..Len(s) : s[p] = e

\* list(range(n))
Range(n) == [p \in 1..n |-> p - 1]

\* s[start::step]
RECURSIVE Stride(_, _, _)
Stride(s, start, step) ==
    IF start >= Len(s) THEN <<>>
    ELSE <<s[start + 1]>> \o Stride(s, start + step, step)

\* ------------------------------------------------------------- dataset
\* io.loadmat: X is N x (1+D), column 0 the atom count; y is N x 1
LoadX(n, d) == [r \in 1..n |-> [c \in 1..(d + 1) |->
                    [row |-> r, col |-> c - 1, scaled |-> FALSE]]]
LoadY(n) == [r \in 1..n |-> << [row |-> r, col |-> -1, scaled |-> FALSE] >>]

\* normalize(features, axis=0, return_norm=True): one norm per column of
\* features, i.e. per column 1..D of X; norms[j] names the X column it scales
Norms(x) == [j \in 1..(Len(x[1]) - 1) |-> [col |-> j]]

\* self.training_x[:, 1:] = features
Normalized(x) == [r \in 1..Len(x) |-> [c \in 1..Len(x[r]) |->
                    IF c = 1 THEN x[r][c]
                    ELSE [x[r][c] EXCEPT !.scaled = TRUE]]]

\* ------------------------------------------------------------- numpy RNG
\* np.random.seed(seed): the global generator's state becomes a function of
\* the seed alone
SeedState(s) == s % 16

RngNext(s) == (s * 5 + 3) % 16

Swap(a, p, q) == [a EXCEPT ![p] = a[q], ![q] = a[p]]

\* np.random.shuffle(data): Fisher-Yates over the rows, from the last row
\* down, drawing from the global generator; hi is the 0-based row in hand
RECURSIVE ShuffleFrom(_, _, _)
ShuffleFrom(a, s, hi) ==
    IF hi < 1 THEN [rows |-> a, rng |-> s]
    ELSE LET s2 == RngNext(s)
             j  == s2 % (hi + 1)
         IN  ShuffleFrom(Swap(a, hi + 1, j + 1), s2, hi - 1)

Shuffle(a, s) == ShuffleFrom(a, s, Len(a) - 1)

VARIABLES
    f, norm, training_x, training_y, training_data, norms,
    rng, file,
    pc, alpha_range, seed, plot_image, data, k, i,
    errors_validation, errors_train, alpha_errors,
    fits, fold_plots, sweep_plots, result, failure, mp_alpha,
    seen_order, reused_seed, replaced, fold_rows

trainer == <<f, norm, training_x, training_y, training_data, norms>>
vars == <<f, norm, training_x, training_y, training_data, norms,
          rng, file,
          pc, alpha_range, seed, plot_image, data, k, i,
          errors_validation, errors_train, alpha_errors,
          fits, fold_plots, sweep_plots, result, failure, mp_alpha,
          seen_order, reused_seed, replaced, fold_rows>>

\* MODELS.get(f): a kind outside the table resolves to None, silently
MODELS(kind) == IF kind \in {"LASSO", "RIDGE"} THEN kind ELSE "None"

\* PotentialTrainer.__init__.  The table has at least as many rows as there
\* are folds: with fewer, a fold's validation split is empty and the solver
\* rejects it.
Init ==
    \E n \in Folds..MaxN, d \in 1..MaxD, kind \in ModelKinds, nm \in NormKinds :
        LET x == LoadX(n, d)
            y == LoadY(n)
            xs == IF nm # "None" THEN Normalized(x) ELSE x
        IN  /\ f = MODELS(kind)
            /\ norm = nm
            /\ training_x = xs
            /\ norms = IF nm # "None" THEN Norms(x) ELSE <<>>
            /\ training_y = y
            /\ training_data = Concatenate(y, xs)
            /\ rng = 0
            /\ file = [exists |-> FALSE, lines |-> <<>>]
            /\ pc = "idle"
            /\ alpha_range = <<>>
            /\ seed = 0
            /\ plot_image = "None"
            /\ data = <<>>
            /\ k = 0
            /\ i = 0
            /\ errors_validation = <<>>
            /\ errors_train = <<>>
            /\ alpha_errors = <<>>
            /\ fits = 0
            /\ fold_plots = 0
            /\ sweep_plots = <<>>
            /\ result = <<>>
            /\ failure = "None"
            /\ mp_alpha = 0
            /\ seen_order = [s \in Seeds |-> <<>>]
            /\ reused_seed = FALSE
            /\ replaced = FALSE
            /\ fold_rows = <<>>

\* ------------------------------------------------------------- solver
\* faulty variant: an unresolved kind falls back to a working estimator
ModelBuildNeverFails(fn) == FALSE

\* self.f(alpha=..., fit_intercept=False): calling None raises TypeError
ModelBuildFails(fn) == fn = "None"

\* the dataset rows held by the rows of a 2-D array
RowsOf(x) == {x[p][1].row : p \in 1..Len(x)}

\* model.fit(x, y): the fitted model is determined by the estimator kind,
\* alpha and the rows it was given; ydim is y's number of dimensions
Fit(fn, alpha, x, y, ydim) ==
    [kind |-> fn, alpha |-> alpha, ydim |-> ydim,
     rows |-> RowsOf(x),
     ncols |-> Len(x[1])]

\* the atom count held by a cell of X's column 0
NumAtoms(cell) == 1 + (cell.row % 2)

\* np.absolute(y - model.predict(x)) for one row
AbsDiff(model, x_row, y_cell) ==
    (y_cell.row * (model.alpha + 1) + Cardinality(model.rows)
        + (IF y_cell.row \in model.rows THEN 0 ELSE 1)) % 4

\* np.average(np.absolute(y - model.predict(x)) / num)
Error(model, x, y, num) ==
    Mean([p \in 1..Len(x) |-> Rat(AbsDiff(model, x[p], y[p]), NumAtoms(num[p]))])

\* model.coef_: one coefficient per column of the x fitted on.  Ridge keeps
\* a 2-D y's target axis, shape (1, ncols); Lasso squeezes a single target
\* to shape (ncols,)
CoefRow(model) ==
    [c \in 1..model.ncols |-> [col |-> c - 1, alpha |-> model.alpha, div |-> <<>>]]

Coef(model) ==
    IF model.kind = "RIDGE" /\ model.ydim = 2
    THEN [ndim |-> 2, v |-> <<CoefRow(model)>>]
    ELSE [ndim |-> 1, v |-> CoefRow(model)]

\* a[0]: a row of a 2-D array, a scalar of a 1-D one
Item0(a) ==
    IF a.ndim = 2 THEN [ndim |-> 1, v |-> a.v[1]] ELSE [ndim |-> 0, v |-> a.v[1]]

\* numpy broadcasting of potential / self.norms; norms is 1-D
CanDivide(p, n) == p.ndim = 0 \/ Len(p.v) = Len(n) \/ Len(p.v) = 1 \/ Len(n) = 1

DivCell(c, n) == [c EXCEPT !.div = <<n.col>>]

Divide(p, n) ==
    IF p.ndim = 0 THEN [ndim |-> 1, v |-> [j \in 1..Len(n) |-> DivCell(p.v, n[j])]]
    ELSE IF Len(p.v) = Len(n)
         THEN [ndim |-> 1, v |-> [j \in 1..Len(n) |-> DivCell(p.v[j], n[j])]]
    ELSE IF Len(n) = 1
         THEN [ndim |-> 1, v |-> [j \in 1..Len(p.v) |-> DivCell(p.v[j], n[1])]]
    ELSE [ndim |-> 1, v |-> [j \in 1..Len(n) |-> DivCell(p.v[1], n[j])]]

\* ------------------------------------------------------------- cross_validation
\* faulty variant: the shuffle runs on the trainer's table itself
TableShuffledInPlace(table, shuffled) == shuffled

\* line 144: data = self.training_data.copy(): the shuffle works on its own
\* buffer, so the trainer's table is what it was
TableAfterShuffle(table, shuffled) == table

\* faulty variant: the generator is left where the previous call put it
ReseedSkipped(state, s) == state

\* line 145: np.random.seed(seed) replaces the generator's state
Reseed(state, s) == SeedState(s)

\* the dataset rows of a table, in the table's order
RowOrder(table) == [r \in 1..Len(table) |-> table[r][1].row]

\* history: the row order the first call with seed sd produced
Observe(seen, sd, order) ==
    IF seen[sd] = <<>> THEN [seen EXCEPT ![sd] = order] ELSE seen

AlphaRanges == UNION {[1..n -> Alphas] : n \in 0..MaxAlphas}

\* no call is in progress
AtRest == pc = "idle"

\* a call has returned or raised; what it returned or raised is in result and
\* failure, its locals are still in the frame
Ended == pc \in {"cv_returned", "cv_failed", "mp_done", "mp_failed"}

\* lines 144-150: copy, seed, shuffle, start the sweep
CallCrossValidation(alphas, sd, img) ==
    /\ AtRest
    /\ \E sh \in {Shuffle(training_data, Reseed(rng, sd))} :
           /\ data' = sh.rows
           /\ rng' = sh.rng
           /\ training_data' = TableAfterShuffle(training_data, sh.rows)
           /\ seen_order' = Observe(seen_order, sd, RowOrder(sh.rows))
           /\ reused_seed' = (seen_order[sd] # <<>>)
    /\ alpha_range' = alphas
    /\ seed' = sd
    /\ plot_image' = img
    /\ k' = 0
    /\ i' = 0
    /\ errors_validation' = <<>>
    /\ errors_train' = <<>>
    /\ alpha_errors' = <<>>
    /\ fits' = 0
    /\ fold_plots' = 0
    /\ sweep_plots' = <<>>
    /\ result' = <<>>
    /\ failure' = "None"
    /\ pc' = "cv_loop"
    /\ fold_rows' = <<>>
    /\ UNCHANGED <<f, norm, training_x, training_y, norms, file, mp_alpha,
                   replaced>>

\* lines 147-149
local_x == Cols(data, 1)
local_y == Col(data, 0)
num_array == Col(data, 1)

\* lines 156-158
all_id == Range(Len(data))

\* faulty variant: the validation slice starts one row late
validation_id_late(fold) == Stride(all_id, fold + 1, Folds)

validation_id(fold) == Stride(all_id, fold, Folds)

NotIn(ids, v) == SelectSeq(ids, LAMBDA j : ~InSeq(j, v))

\* faulty variant: the filter tests the fold number, not membership of the slice
train_id_by_fold(fold) == SelectSeq(all_id, LAMBDA j : j # fold)

train_id(fold) == NotIn(all_id, validation_id(fold))


\* lines 166-172: fit on the training split, predict both, average the
\* per-atom absolute errors
SplitErrors(model, train_x, train_y, num_train, val_x, val_y, num_val) ==
    [val |-> Error(model, val_x, val_y, num_val),
     train |-> Error(model, train_x, train_y, num_train),
     fit_rows |-> model.rows,
     val_rows |-> RowsOf(val_x)]

\* lines 159-165: split by the two index lists and build the model
Split(alpha, tr, va) ==
    SplitErrors(Fit(f, alpha, Take(local_x, tr), Take(local_y, tr), 1),
                Take(local_x, tr), Take(local_y, tr), Take(num_array, tr),
                Take(local_x, va), Take(local_y, va), Take(num_array, va))

\* lines 156-172 for one fold, given the model can be built
FoldErrors(fold, alpha) == Split(alpha, train_id(fold), validation_id(fold))

\* lines 173-184: two scatter plots on fold 0 when a mode is requested
FoldPlots(fold, img) == IF fold = 0 /\ img \in {"atom", "sample"} THEN 2 ELSE 0

\* lines 155-186: the fold loop from iteration fold on; acc holds the two
\* error lists, the fits and plots done so far, the fold in hand, whether
\* building the model raised, and (history) the rows each fold fitted on
\* and validated on
\* lines 185-186 and the loop's bookkeeping for a fold whose errors are e
Record(acc, fold, e) ==
    [acc EXCEPT !.i = fold,
                !.ev = Append(acc.ev, e.val),
                !.et = Append(acc.et, e.train),
                !.fits = acc.fits + 1,
                !.rows = Append(acc.rows, [train |-> e.fit_rows, val |-> e.val_rows]),
                !.plots = acc.plots + FoldPlots(fold, plot_image)]

RECURSIVE FoldLoop(_, _, _)
FoldLoop(fold, alpha, acc) ==
    IF fold = Folds THEN acc
    ELSE IF ModelBuildFails(f) THEN [acc EXCEPT !.i = fold, !.raised = TRUE]
    ELSE FoldLoop(fold + 1, alpha, Record(acc, fold, FoldErrors(fold, alpha)))

\* faulty variant: the mean train error is recorded instead
AlphaErrorTrain(ev, et) == Mean(et)

\* line 191: what the sweep records for an alpha
AlphaError(ev, et) == Mean(ev)

\* lines 151-191: one iteration of the alpha loop
CVAlpha ==
    /\ pc = "cv_loop"
    /\ k < Len(alpha_range)
    /\ \E r \in {FoldLoop(0, alpha_range[k + 1],
                         [ev |-> <<>>, et |-> <<>>, fits |-> fits,
                          plots |-> fold_plots, i |-> 0, raised |-> FALSE,
                          rows |-> <<>>])} :
           /\ errors_validation' = r.ev
           /\ errors_train' = r.et
           /\ fits' = r.fits
           /\ fold_plots' = r.plots
           /\ i' = r.i
           /\ fold_rows' = r.rows
           /\ IF r.raised
              THEN /\ failure' = "TypeError"
                   /\ pc' = "cv_failed"
                   /\ UNCHANGED <<k, alpha_errors>>
              ELSE /\ alpha_errors' = Append(alpha_errors, AlphaError(r.ev, r.et))
                   /\ k' = k + 1
                   /\ UNCHANGED <<failure, pc>>
    /\ UNCHANGED <<trainer, rng, file, alpha_range, seed, plot_image, data,
                   sweep_plots, result, mp_alpha, seen_order, reused_seed,
                   replaced>>

\* plot_cross(param, error, y_low, y_up)
plot_cross(param, error, y_low, y_up) ==
    [param |-> param, error |-> error, y_low |-> y_low, y_up |-> y_up]

\* faulty variant: an empty sweep gets default bounds instead of raising
PlotBoundsDefault(errors) ==
    IF errors = <<>>
    THEN [ok |-> TRUE, y_low |-> Rat(0, 1), y_up |-> Rat(0, 1)]
    ELSE [ok |-> TRUE,
          y_low |-> RatSub(Min(errors), RatSub(Max(errors), Min(errors))),
          y_up |-> RatAdd(Max(errors), RatSub(Max(errors), Min(errors)))]

\* faulty variant: the bounds are the extremes themselves, without the margin
PlotBoundsTight(errors) ==
    IF errors = <<>>
    THEN [ok |-> FALSE, y_low |-> Rat(0, 1), y_up |-> Rat(0, 1)]
    ELSE [ok |-> TRUE, y_low |-> Min(errors), y_up |-> Max(errors)]

\* lines 193-195 and the bounds of line 197; max() and min() raise
\* ValueError on an empty array
PlotBounds(errors) ==
    IF errors = <<>>
    THEN [ok |-> FALSE, y_low |-> Rat(0, 1), y_up |-> Rat(0, 1)]
    ELSE LET max_e == Max(errors)
             min_e == Min(errors)
             diff == RatSub(max_e, min_e)
         IN  [ok |-> TRUE, y_low |-> RatSub(min_e, diff), y_up |-> RatAdd(max_e, diff)]

\* lines 192-198
CVFinish ==
    /\ pc = "cv_loop"
    /\ k = Len(alpha_range)
    /\ IF ~PlotBounds(alpha_errors).ok
       THEN /\ failure' = "ValueError"
            /\ pc' = "cv_failed"
            /\ UNCHANGED <<sweep_plots, result>>
       ELSE /\ sweep_plots' =
                   Append(sweep_plots,
                          plot_cross(alpha_range, alpha_errors,
                                     PlotBounds(alpha_errors).y_low,
                                     PlotBounds(alpha_errors).y_up))
            /\ result' = alpha_errors
            /\ pc' = "cv_returned"
            /\ UNCHANGED failure
    /\ UNCHANGED <<trainer, rng, file, alpha_range, seed, plot_image, data, k, i,
                   errors_validation, errors_train, alpha_errors, fits,
                   fold_plots, mp_alpha, seen_order, reused_seed, replaced,
                   fold_rows>>

\* ------------------------------------------------------------- make_potential
\* faulty variant: the fit leaves the atom-count column out
PotentialDescriptorsOnly(alpha) ==
    IF norm = "None"
    THEN [ok |-> TRUE,
          p |-> Item0(Coef(Fit(f, alpha, Cols(training_x, 1), training_y, 2)))]
    ELSE [ok |-> CanDivide(Item0(Coef(Fit(f, alpha, Cols(training_x, 1), training_y, 2))), norms),
          p |-> Divide(Item0(Coef(Fit(f, alpha, Cols(training_x, 1), training_y, 2))), norms)]

\* lines 233-238: the vector handed to the writer, or the error raised
Potential(alpha) ==
    LET model == Fit(f, alpha, training_x, training_y, 2)
        p == Item0(Coef(model))
    IN  IF norm = "None" THEN [ok |-> TRUE, p |-> p]
        ELSE IF CanDivide(p, norms) THEN [ok |-> TRUE, p |-> Divide(p, norms)]
        ELSE [ok |-> FALSE, p |-> p]

\* line 241: str(potential[i]) + "\n"
Line(c) == [text |-> c, newline |-> TRUE]

\* line 239: open(path, 'w') creates the file or truncates it
Open(fl) == [exists |-> TRUE, lines |-> <<>>]

\* whether the call gets as far as line 239 and the open succeeds
Opens(dir_ok, alpha) == ~ModelBuildFails(f) /\ Potential(alpha).ok /\ dir_ok

\* lines 231-242
make_potential(dir_ok, alpha) ==
    /\ AtRest
    /\ mp_alpha' = alpha
    /\ replaced' = (Opens(dir_ok, alpha) /\ file.lines # <<>>)
    /\ IF ModelBuildFails(f)
       THEN /\ failure' = "TypeError"
            /\ pc' = "mp_failed"
            /\ UNCHANGED file
       ELSE \E pot \in {Potential(alpha)} :
                IF ~pot.ok
                THEN /\ failure' = "ValueError"
                     /\ pc' = "mp_failed"
                     /\ UNCHANGED file
                ELSE IF ~dir_ok
                THEN /\ failure' = "FileNotFoundError"
                     /\ pc' = "mp_failed"
                     /\ UNCHANGED file
                ELSE IF pot.p.ndim = 0
                THEN \* open(..., 'w') truncates, then len() of a scalar raises
                     /\ failure' = "TypeError"
                     /\ pc' = "mp_failed"
                     /\ file' = Open(file)
                ELSE /\ failure' = "None"
                     /\ pc' = "mp_done"
                     /\ file' = [Open(file) EXCEPT
                                 !.lines = [j \in 1..Len(pot.p.v) |-> Line(pot.p.v[j])]]
    /\ alpha_range' = <<>>
    /\ seed' = 0
    /\ plot_image' = "None"
    /\ data' = <<>>
    /\ k' = 0
    /\ i' = 0
    /\ errors_validation' = <<>>
    /\ errors_train' = <<>>
    /\ alpha_errors' = <<>>
    /\ fits' = IF ModelBuildFails(f) THEN 0 ELSE 1
    /\ fold_plots' = 0
    /\ sweep_plots' = <<>>
    /\ result' = <<>>
    /\ fold_rows' = <<>>
    /\ UNCHANGED <<trainer, rng, seen_order, reused_seed>>

\* control is back at the caller: the frame of the call that ended is gone,
\* the trainer, the generator and the file stay as the call left them
Unwind ==
    /\ Ended
    /\ pc' = "idle"
    /\ alpha_range' = <<>>
    /\ seed' = 0
    /\ plot_image' = "None"
    /\ data' = <<>>
    /\ k' = 0
    /\ i' = 0
    /\ errors_validation' = <<>>
    /\ errors_train' = <<>>
    /\ alpha_errors' = <<>>
    /\ fits' = 0
    /\ fold_plots' = 0
    /\ sweep_plots' = <<>>
    /\ result' = <<>>
    /\ failure' = "None"
    /\ mp_alpha' = 0
    /\ reused_seed' = FALSE
    /\ replaced' = FALSE
    /\ fold_rows' = <<>>
    /\ UNCHANGED <<trainer, rng, file, seen_order>>

cross_validation ==
    \/ \E alphas \in AlphaRanges, sd \in Seeds, img \in PlotImages :
           CallCrossValidation(alphas, sd, img)
    \/ CVAlpha
    \/ CVFinish

Next ==
    \/ cross_validation
    \/ \E dir_ok \in BOOLEAN, alpha \in Alphas : make_potential(dir_ok, alpha)
    \/ Unwind

Spec == Init /\ [][Next]_vars

\* ------------------------------------------------------------- properties
SeqSet(s) == {s[p] : p \in 1..Len(s)}
FoldIds == 0..(Folds - 1)
InCrossValidation == pc \in {"cv_loop", "cv_returned", "cv_failed"}
AllIds == 0..(Len(training_data) - 1)
AllRows == {training_data[r][1].row : r \in 1..Len(training_data)}

\* C1: the five validation index lists (fold i = positions i, i+5, ... of
\* the shuffled table) are pairwise disjoint and together are exactly
\* 0..N-1; so are the rows the five folds of a sweep step validated on.
C1_FoldsPartition ==
    InCrossValidation =>
        /\ \A v \in {[a \in FoldIds |-> SeqSet(validation_id(a))]} :
               /\ \A a \in FoldIds :
                      /\ Cardinality(v[a]) = Len(validation_id(a))
                      /\ \A e \in v[a] : e % Folds = a
               /\ \A a, b \in FoldIds : a < b => v[a] \cap v[b] = {}
               /\ UNION {v[a] : a \in FoldIds} = AllIds
        /\ Len(fold_rows) = Folds =>
               /\ \A a, b \in 1..Folds :
                      a < b => fold_rows[a].val \cap fold_rows[b].val = {}
               /\ UNION {fold_rows[a].val : a \in 1..Folds} = AllRows

\* a sweep step has run all five folds on a table with more rows than folds
C1_Witness ==
    /\ pc = "cv_loop"
    /\ Len(fold_rows) = Folds
    /\ Len(data) > Folds
    /\ Cardinality(fold_rows[1].val) = 2

\* C2: a returned sweep has one entry per input alpha, in input order, and
\* entry q is the mean over the five folds of the validation error computed
\* with the q-th alpha.
C2_MeanValidationErrorPerAlpha ==
    pc = "cv_returned" =>
        /\ Len(result) = Len(alpha_range)
        /\ \A q \in 1..Len(alpha_range) :
               \A e \in {[fold \in 1..Folds |-> FoldErrors(fold - 1, alpha_range[q])]} :
                   result[q] = Mean([fold \in 1..Folds |-> e[fold].val])

\* a returned sweep of two different alphas with two different mean errors
C2_Witness ==
    /\ pc = "cv_returned"
    /\ Len(result) = 2
    /\ alpha_range[1] # alpha_range[2]
    /\ result[1] # result[2]

\* C3: every call of cross_validation with a given seed works on the row
\* order that the first call with that seed produced, whatever calls came
\* in between; hence on the same validation and training rows per fold.
C3_SameSeedSameOrder ==
    InCrossValidation =>
        /\ RowOrder(data) = seen_order[seed]
        /\ \A r \in 1..Len(data) : data[r] = training_data[seen_order[seed][r]]
        /\ \A q \in 1..Len(fold_rows) :
               \A v \in {validation_id(q - 1)} :
                   fold_rows[q].val = SeqSet(Take(seen_order[seed], v))

\* a call that reuses a seed, after a call with another seed and a written
\* potential file
C3_Witness ==
    /\ pc = "cv_returned"
    /\ reused_seed
    /\ file.exists
    /\ \E s \in Seeds :
           s # seed /\ seen_order[s] # <<>> /\ seen_order[s] # RowOrder(data)

C5_AsStated ==
    (pc \in {"mp_done", "mp_failed"} /\ norm # "None" /\ f = "RIDGE"
        /\ failure # "FileNotFoundError") =>
        /\ pc = "mp_done"
        /\ Len(norms) = Len(training_x[1])
        /\ \A j \in 1..Len(file.lines) :
               /\ file.lines[j].text.col = j - 1
               /\ file.lines[j].text.div = <<file.lines[j].text.col>>

\* C6: a trainer whose model kind is not in MODELS exists after
\* construction; no call on it returns, fits, plots or touches the file; a
\* non-empty sweep raises at the first fold of the first alpha, and
\* make_potential raises before the file is opened.
C6_UnknownKindFailsAtUse ==
    f = "None" =>
        /\ pc \notin {"cv_returned", "mp_done"}
        /\ result = <<>>
        /\ sweep_plots = <<>>
        /\ fold_plots = 0
        /\ fits = 0
        /\ ~file.exists
        /\ (pc = "cv_failed" /\ alpha_range # <<>>) =>
               failure = "TypeError" /\ k = 0 /\ i = 0 /\ alpha_errors = <<>>
        /\ pc = "mp_failed" => failure = "TypeError"

\* a non-empty sweep on a trainer of unknown kind has raised
C6_Witness ==
    /\ f = "None"
    /\ pc = "cv_failed"
    /\ failure = "TypeError"
    /\ Len(alpha_range) = 2

\* C7: a sweep over no alphas fits nothing, raises ValueError at max(),
\* plots nothing and returns nothing.
C7_EmptySweepRaises ==
    (InCrossValidation /\ alpha_range = <<>>) =>
        /\ pc # "cv_returned"
        /\ fits = 0
        /\ fold_plots = 0
        /\ sweep_plots = <<>>
        /\ result = <<>>
        /\ pc = "cv_failed" => failure = "ValueError"

\* an empty sweep on a trainer of known kind has raised
C7_Witness ==
    /\ pc = "cv_failed"
    /\ alpha_range = <<>>
    /\ failure = "ValueError"
    /\ f # "None"

\* C8: no sweep plot is issued while alphas remain; a sweep that returns
\* has issued exactly one, over all the alphas and their mean errors, with
\* y_low = min - (max - min) and y_up = max + (max - min); for one alpha
\* both bounds are its mean error.  On a trainer of known kind every
\* non-empty sweep returns.
C8_OneSweepPlotWithMargins ==
    /\ pc = "cv_loop" => sweep_plots = <<>>
    /\ (pc = "cv_failed" /\ f # "None") => alpha_range = <<>>
    /\ pc = "cv_returned" =>
           /\ Len(sweep_plots) = 1
           /\ k = Len(alpha_range)
           /\ sweep_plots[1].param = alpha_range
           /\ sweep_plots[1].error = result
           /\ \E mn, mx \in SeqSet(result) :
                  /\ \A e \in SeqSet(result) : ~RatLess(e, mn) /\ ~RatLess(mx, e)
                  /\ sweep_plots[1].y_low = RatSub(mn, RatSub(mx, mn))
                  /\ sweep_plots[1].y_up = RatAdd(mx, RatSub(mx, mn))
           /\ Len(result) = 1 =>
                  sweep_plots[1].y_low = result[1] /\ sweep_plots[1].y_up = result[1]

\* a returned sweep whose errors differ, so the margins are not zero
C8_Witness ==
    /\ pc = "cv_returned"
    /\ Len(sweep_plots) = 1
    /\ RatLess(sweep_plots[1].y_low, Min(result))
    /\ RatLess(Max(result), sweep_plots[1].y_up)

\* C9: in every fold the training index list is the complement of the
\* validation index list in 0..N-1, and the rows a fold fitted on and the
\* rows it validated on are disjoint and together are all the rows.
C9_TrainIsComplement ==
    InCrossValidation =>
        /\ \A a \in FoldIds :
               \A t \in {train_id(a)}, v \in {validation_id(a)} :
                   /\ SeqSet(t) \cap SeqSet(v) = {}
                   /\ SeqSet(t) \cup SeqSet(v) = AllIds
                   /\ Cardinality(SeqSet(t)) = Len(t)
        /\ \A q \in 1..Len(fold_rows) :
               /\ fold_rows[q].train \cap fold_rows[q].val = {}
               /\ fold_rows[q].train \cup fold_rows[q].val = AllRows

\* the second alpha of a sweep has run its five folds
C9_Witness ==
    /\ pc = "cv_loop"
    /\ k = 2
    /\ Len(fold_rows) = Folds
    /\ fold_rows[Folds].val # {}

\* C10: no step of cross_validation or make_potential changes the
\* trainer's model, norm, training_x, training_y, training_data (rows and
\* their order) or norms.
C10_TrainerUnchanged ==
    [][/\ f' = f
       /\ norm' = norm
       /\ training_x' = training_x
       /\ training_y' = training_y
       /\ training_data' = training_data
       /\ norms' = norms]_vars

\* make_potential has completed after a sweep that shuffled the rows into
\* another order, and the table is still in load order
C10_Witness ==
    /\ pc = "mp_done"
    /\ training_data = Concatenate(training_y, training_x)
    /\ \E s \in Seeds :
           seen_order[s] # <<>> /\ seen_order[s] # RowOrder(training_data)


====
